---- MODULE Spec2Model ----
(***************************************************************************)
(* A model of CreateClone.py: the command dispatcher (main, clone,         *)
(* cleanup), the REST client's operations (resolve_vm_uuid, get_vm_info,   *)
(* construct_vm_clone_proto, create_clones, poll_task, cleanup_clones) and *)
(* the recursive pruning of a JSON value (_strip_empty_fields).            *)
(*                                                                         *)
(* The script is sequential: pc is the statement it is about to run.  A    *)
(* blocking session.get/post/delete is one step (the request is issued and *)
(* the response object r is obtained); the statements that inspect r are   *)
(* the next step.  The server is the environment: it chooses r.            *)
(***************************************************************************)
EXTENDS Integers, Sequences, FiniteSets, TLC

VARIABLES
  FLAGS,          \* gflags.FLAGS: action, cluster_ip, vm_name, num_clones
  pc,             \* the statement the script is about to execute
  err,            \* the exception that ended the process (NoErr: none)
  r,              \* the last response object returned by the session
  vm_name,        \* resolve_vm_uuid's parameter vm_name
  check_unique,   \* resolve_vm_uuid's parameter check_unique
  vm_uuid,        \* the identifier resolve_vm_uuid returned
  vm_info,        \* the descriptor get_vm_info returned
  vm_clone_proto, \* construct_vm_clone_proto's mutable dict
  specs,          \* construct_vm_clone_proto's list specs
  ci,             \* construct_vm_clone_proto's loop variable i
  i,              \* cleanup_clones' loop variable i
  task_uuid,      \* poll_task's parameter task_uuid
  pollState,      \* the polled task as the client sees it
  log,            \* history: the requests issued, in order, with their outcome
  polls,          \* history: poll requests issued by the current poll_task call
  pendings,       \* history: responses of the current call that had no metaResponse
  proto_dict,     \* _strip_empty_fields' argument
  stripped,       \* _strip_empty_fields(proto_dict)
  restripped      \* _strip_empty_fields(stripped)

vars == <<FLAGS, pc, err, r, vm_name, check_unique, vm_uuid, vm_info,
          vm_clone_proto, specs, ci, i, task_uuid, pollState, log, polls,
          pendings, proto_dict, stripped, restripped>>

flowVars == <<FLAGS, err, r, vm_name, check_unique, vm_uuid, vm_info,
              vm_clone_proto, specs, ci, i, task_uuid, pollState, log, polls,
              pendings>>

(***************************************************************************)
(* Bounds of the model.                                                    *)
(***************************************************************************)
MaxClones == 2      \* --num_clones ranges over 0..MaxClones
MaxPending == 2     \* responses without metaResponse the server gives per task
MaxMatches == 2     \* entities in a filtered VM list
MaxNodes == 4       \* nodes of a JSON value handed to _strip_empty_fields

HTTP_OK == 200      \* requests.codes.ok

(***************************************************************************)
(* JSON values (Python dict, list, str, int, None) as tagged records of    *)
(* one shape.  A dict is its keys in sorted order (ks) with the values at  *)
(* the same positions (c); Python compares dicts regardless of order, so a *)
(* canonical order loses nothing.                                          *)
(***************************************************************************)
JNull == [t |-> "null", s |-> "", n |-> 0, ks |-> <<>>, c |-> <<>>]
JInt(n) == [t |-> "int", s |-> "", n |-> n, ks |-> <<>>, c |-> <<>>]
JStr(s) == [t |-> "str", s |-> s, n |-> 0, ks |-> <<>>, c |-> <<>>]
JList(c) == [t |-> "list", s |-> "", n |-> 0, ks |-> <<>>, c |-> c]
JDict(ks, c) == [t |-> "dict", s |-> "", n |-> 0, ks |-> ks, c |-> c]

\* Python truth value: None, 0, "", {} and [] are false.
Truthy(v) ==
  CASE v.t = "null" -> FALSE
    [] v.t = "int" -> v.n # 0
    [] v.t = "str" -> v.s # ""
    [] OTHER -> Len(v.c) > 0

HasKey(d, k) == \E j \in 1..Len(d.ks) : d.ks[j] = k
Lookup(d, k) == d.c[CHOOSE j \in 1..Len(d.ks) : d.ks[j] = k]

SetKey(d, k, v) == [d EXCEPT !.c[CHOOSE j \in 1..Len(d.ks) : d.ks[j] = k] = v]

\* The j-th smallest member of a set of indices.
Nth(S, j) == CHOOSE x \in S : Cardinality({y \in S : y < x}) = j - 1

RECURSIVE strip_dict(_)

\* The filter of both comprehensions: "if v and strip_dict(v)".
KeepShallow(v) == Truthy(v)
Keep(v) == Truthy(v) /\ Truthy(strip_dict(v))

strip_dict(d) ==
  IF d.t \in {"dict", "list"}
  THEN LET kept == {j \in 1..Len(d.c) : Keep(d.c[j])}
           n == Cardinality(kept)
       IN [d EXCEPT !.ks = IF d.t = "dict"
                           THEN [j \in 1..n |-> d.ks[Nth(kept, j)]]
                           ELSE <<>>,
                    !.c = [j \in 1..n |-> strip_dict(d.c[Nth(kept, j)])]]
  ELSE d

_strip_empty_fields(d) == strip_dict(d)

(***************************************************************************)
(* The JSON values of at most MaxNodes nodes over a few scalars and keys.  *)
(***************************************************************************)
Scalars == {JNull, JInt(0), JInt(1), JStr(""), JStr("a")}
KeySeqs == {<<>>, <<"a">>, <<"b">>, <<"a", "b">>}

RECURSIVE Tree(_), Forest(_)
\* Sequences of values with n nodes in all.
Forest(n) ==
  IF n = 0 THEN {<<>>}
  ELSE UNION {{<<t>> \o f : t \in Tree(k), f \in Forest(n - k)} : k \in 1..n}
\* Values with exactly n nodes.
Tree(n) ==
  (IF n = 1 THEN Scalars ELSE {})
    \cup {JList(f) : f \in Forest(n - 1)}
    \cup UNION {{JDict(ks, f) : ks \in {q \in KeySeqs : Len(q) = Len(f)}} :
                  f \in Forest(n - 1)}

JsonValues == UNION {Tree(n) : n \in 1..MaxNodes}

\* Every value stored in a container, at any depth.
RECURSIVE Inner(_)
Inner(v) ==
  {v.c[j] : j \in 1..Len(v.c)} \cup UNION {Inner(v.c[j]) : j \in 1..Len(v.c)}

(***************************************************************************)
(* Flags, exceptions, requests and responses.                              *)
(***************************************************************************)
None == "None"          \* a string flag that was not given
NoUuid == <<"None">>    \* no identifier resolved yet (identifiers are
                        \* sequences of characters)
NoInfo == [numVcpus |-> 0, name |-> "", memoryMb |-> 0]

Actions == {None, "clone", "cleanup", "restore"}
ClusterIps == {None, "10.0.0.1"}
VmNames == {None, "web01"}

NoErr == [type |-> "", msg |-> "", status |-> 0, task |-> "", code |-> "", detail |-> ""]
AssertionError == [NoErr EXCEPT !.type = "AssertionError"]
IndexError == [NoErr EXCEPT !.type = "IndexError", !.msg = "list index out of range"]
Exception(msg) == [NoErr EXCEPT !.type = "Exception", !.msg = msg]
HttpException(method, status) == [Exception(method \o " %s: %s") EXCEPT !.status = status]
TaskException(task, code, detail) == [Exception("Task %s failed: %s: %s") EXCEPT !.task = task, !.code = code, !.detail = detail]

Statuses == {HTTP_OK, 202, 500}

\* vmId strings as sequences of characters: with the cluster prefix Prism
\* prepends, without it, and with a colon inside the prefix.
VmIds == { <<"c", ":", ":", "u", "1">>, <<"u", "2">>, <<"c", ":", "9", ":", ":", "u", "3">> }
TaskUuids == {"t1", "t2"}
Errors == {"kNoError", "kInvalidState", "kNoHostResources"}
ErrorDetails == {"", "no host"}
Descriptors == [numVcpus : {0, 2}, name : {"web01", "db"}, memoryMb : {1024}]

BoundedSeq(S, n) == UNION {[1..k -> S] : k \in 0..n}

NoResp == [kind |-> "none", status |-> 0, count |-> 0, entities |-> <<>>, info |-> NoInfo, taskUuid |-> "", hasMr |-> FALSE, error |-> "", errorDetail |-> ""]
ErrorResponses(kind) == {[NoResp EXCEPT !.kind = kind, !.status = st] : st \in Statuses \ {HTTP_OK}}
\* GET <gateway>/vms?filterCriteria=vm_name==<name>: metadata.count is the
\* number of entities listed.
ResolveResponses ==
  ErrorResponses("resolve") \cup
  {[NoResp EXCEPT !.kind = "resolve", !.status = HTTP_OK, !.count = Len(es), !.entities = es] : es \in BoundedSeq(VmIds, MaxMatches)}
InfoResponses ==
  ErrorResponses("info") \cup
  {[NoResp EXCEPT !.kind = "info", !.status = HTTP_OK, !.info = d] : d \in Descriptors}
TaskResponses(kind) ==
  ErrorResponses(kind) \cup
  {[NoResp EXCEPT !.kind = kind, !.status = HTTP_OK, !.taskUuid = t] : t \in TaskUuids}
\* GET <mgmt>/tasks/<id>/poll: taskInfo with or without a metaResponse.
PendingResponse == [NoResp EXCEPT !.kind = "poll", !.status = HTTP_OK]
PollResponses ==
  ErrorResponses("poll") \cup {PendingResponse} \cup
  {[PendingResponse EXCEPT !.hasMr = TRUE, !.error = e, !.errorDetail = d] : e \in Errors, d \in ErrorDetails}

NoReq == [method |-> "", kind |-> "", name |-> "", id |-> <<>>, task |-> "", body |-> <<>>, reply |-> "", idx |-> 0, outcome |-> "sent"]
Request(method, kind) == [NoReq EXCEPT !.method = method, !.kind = kind, !.idx = i]

\* The history, kept only when h is set: each request with the names of the
\* specs a clone batch carried (body), the task identifier the response
\* named (reply), cleanup_clones' index when it was issued (idx) and what
\* became of it (outcome: sent, ok, pending, failed).
LogRequest(h, q) == log' = IF h THEN Append(log, q) ELSE log
LogOutcome(h, o) == log' = IF h THEN [log EXCEPT ![Len(log)].outcome = o] ELSE log

(***************************************************************************)
(* The client's decisions on a response, as functions of the response.     *)
(***************************************************************************)
\* s.rsplit(":", 1)[-1]: what follows the last ":" of s, or s without one.
RSplitLast(s) ==
  LET at == {k \in 1..Len(s) : s[k] = ":"}
  IN IF at = {} THEN s
     ELSE SubSeq(s, (CHOOSE k \in at : \A m \in at : k >= m) + 1, Len(s))

Return(v) == [raise |-> FALSE, err |-> NoErr, value |-> v]
Raised(e) == [raise |-> TRUE, err |-> e, value |-> NoUuid]

\* (resolve_vm_uuid without its "count > 1" test.)
resolve_vm_uuid_first_match(resp, cu) ==
  IF resp.status # HTTP_OK THEN Raised(HttpException("GET", resp.status))
  ELSE IF cu # 0 /\ resp.count = 0 THEN Raised(Exception("Failed to find VM named %r"))
  ELSE IF Len(resp.entities) = 0 THEN Raised(IndexError)
  ELSE Return(RSplitLast(resp.entities[1]))

\* resolve_vm_uuid after session.get: the status check, the uniqueness
\* check and the first entity's vmId.
resolve_vm_uuid_result(resp, cu) ==
  IF resp.status # HTTP_OK THEN Raised(HttpException("GET", resp.status))
  ELSE IF cu # 0 /\ resp.count = 0 THEN Raised(Exception("Failed to find VM named %r"))
  ELSE IF cu # 0 /\ resp.count > 1 THEN Raised(Exception("VM name %r is not unique"))
  ELSE IF Len(resp.entities) = 0 THEN Raised(IndexError)
  ELSE Return(RSplitLast(resp.entities[1]))

\* (poll_task with the comparison to "kNoError" inverted.)
poll_task_inverted(resp, task) ==
  IF resp.status # HTTP_OK
  THEN [next |-> "raise", err |-> HttpException("GET", resp.status)]
  ELSE IF ~resp.hasMr THEN [next |-> "continue", err |-> NoErr]
  ELSE IF resp.error # "kNoError" THEN [next |-> "break", err |-> NoErr]
  ELSE [next |-> "raise", err |-> TaskException(task, resp.error, resp.errorDetail)]

\* (poll_task reporting the error code in place of the error detail.)
poll_task_code_twice(resp, task) ==
  IF resp.status # HTTP_OK
  THEN [next |-> "raise", err |-> HttpException("GET", resp.status)]
  ELSE IF ~resp.hasMr THEN [next |-> "continue", err |-> NoErr]
  ELSE IF resp.error = "kNoError" THEN [next |-> "break", err |-> NoErr]
  ELSE [next |-> "raise", err |-> TaskException(task, resp.error, resp.error)]

\* One turn of poll_task's loop after session.get: raise, continue or break.
poll_task_result(resp, task) ==
  IF resp.status # HTTP_OK
  THEN [next |-> "raise", err |-> HttpException("GET", resp.status)]
  ELSE IF ~resp.hasMr THEN [next |-> "continue", err |-> NoErr]
  ELSE IF resp.error = "kNoError" THEN [next |-> "break", err |-> NoErr]
  ELSE [next |-> "raise", err |-> TaskException(task, resp.error, resp.errorDetail)]

\* What construct_vm_clone_proto appends to specs: the pruned copy of the
\* dict, a new object.  (alias: the entry is the dict vm_clone_proto itself.)
SameObject(proto) == [alias |-> TRUE, val |-> proto]
NewSpec(proto) == [alias |-> FALSE, val |-> _strip_empty_fields(proto)]
\* The value a specs entry holds now.
Deref(sp) == IF sp.alias THEN vm_clone_proto ELSE sp.val
SpecName(sp) == Lookup(Deref(sp), "name").s

ProtoKeys == <<"memoryMb", "name", "numVcpus", "overrideNetworkConfig", "sourceVMLogicalTimestamp", "uuid", "vmNics">>
Proto(info, name) ==
  JDict(ProtoKeys, <<JInt(info.memoryMb), JStr(name), JInt(info.numVcpus),
                     JStr("false"), JStr(""), JStr(""), JList(<<>>)>>)
CloneName(name, k) == name \o "-" \o ToString(k)

(***************************************************************************)
(* The script, statement by statement.                                     *)
(***************************************************************************)
Raise(e) == pc' = "failed" /\ err' = e
Goto(l) == pc' = l /\ err' = err

\* main(): the asserts on the flags, the client object (no request is made
\* by requests.Session()), the dispatch on --action.  num_clones is an
\* integer flag with a default, so the assert on it cannot fail.
main ==
  /\ pc = "main"
  /\ IF FLAGS.action = None \/ FLAGS.cluster_ip = None
     THEN Raise(AssertionError)
     ELSE IF FLAGS.action = "clone" THEN Goto("clone")
     ELSE IF FLAGS.action = "cleanup" THEN Goto("cleanup")
     ELSE Raise(Exception("Unknown --action; expected 'clone' or 'cleanup'"))
  /\ UNCHANGED <<FLAGS, r, vm_name, check_unique, vm_uuid, vm_info, vm_clone_proto, specs, ci, i, task_uuid, pollState, log, polls, pendings, proto_dict, stripped, restripped>>

\* (clone(c) without its assert.)
clone_unasserted ==
  /\ pc = "clone"
  /\ Goto("resolve_get") /\ vm_name' = FLAGS.vm_name /\ check_unique' = 1
  /\ UNCHANGED <<FLAGS, r, vm_uuid, vm_info, vm_clone_proto, specs, ci, i, task_uuid, pollState, log, polls, pendings, proto_dict, stripped, restripped>>

\* clone(c): the assert and the call resolve_vm_uuid(FLAGS.vm_name, 1).
clone ==
  /\ pc = "clone"
  /\ IF FLAGS.vm_name = None
     THEN Raise(AssertionError) /\ UNCHANGED <<vm_name, check_unique>>
     ELSE Goto("resolve_get") /\ vm_name' = FLAGS.vm_name /\ check_unique' = 1
  /\ UNCHANGED <<FLAGS, r, vm_uuid, vm_info, vm_clone_proto, specs, ci, i, task_uuid, pollState, log, polls, pendings, proto_dict, stripped, restripped>>

\* cleanup(c): the assert and the call of cleanup_clones.
cleanup ==
  /\ pc = "cleanup"
  /\ IF FLAGS.vm_name = None
     THEN Raise(AssertionError) /\ i' = i
     ELSE Goto("cleanup_loop") /\ i' = 0
  /\ UNCHANGED <<FLAGS, r, vm_name, check_unique, vm_uuid, vm_info, vm_clone_proto, specs, ci, task_uuid, pollState, log, polls, pendings, proto_dict, stripped, restripped>>

\* cleanup_clones: the head of the loop, the name of clone i and the call
\* resolve_vm_uuid(name, 0); the loop's end returns to main, which exits.
cleanup_clones_loop ==
  /\ pc = "cleanup_loop"
  /\ IF i < FLAGS.num_clones
     THEN Goto("resolve_get") /\ vm_name' = CloneName(FLAGS.vm_name, i) /\ check_unique' = 0
     ELSE Goto("done") /\ UNCHANGED <<vm_name, check_unique>>
  /\ UNCHANGED <<FLAGS, r, vm_uuid, vm_info, vm_clone_proto, specs, ci, i, task_uuid, pollState, log, polls, pendings, proto_dict, stripped, restripped>>

\* resolve_vm_uuid: session.get of the filtered VM list.
resolve_vm_uuid_get(h) ==
  /\ pc = "resolve_get"
  /\ \E resp \in ResolveResponses : r' = resp
  /\ LogRequest(h, [Request("GET", "resolve") EXCEPT !.name = vm_name])
  /\ Goto("resolve_recv")
  /\ UNCHANGED <<FLAGS, vm_name, check_unique, vm_uuid, vm_info, vm_clone_proto, specs, ci, i, task_uuid, pollState, polls, pendings, proto_dict, stripped, restripped>>

\* resolve_vm_uuid after the get, and the caller's next statement.
resolve_vm_uuid_recv(h) ==
  /\ pc = "resolve_recv"
  /\ LET res == resolve_vm_uuid_result(r, check_unique)
     IN IF res.raise
        THEN Raise(res.err) /\ LogOutcome(h, "failed") /\ vm_uuid' = vm_uuid
        ELSE /\ Goto(IF FLAGS.action = "clone" THEN "info_get" ELSE "delete")
             /\ LogOutcome(h, "ok")
             /\ vm_uuid' = res.value
  /\ UNCHANGED <<FLAGS, r, vm_name, check_unique, vm_info, vm_clone_proto, specs, ci, i, task_uuid, pollState, polls, pendings, proto_dict, stripped, restripped>>

\* get_vm_info: session.get of the descriptor.
get_vm_info_get(h) ==
  /\ pc = "info_get"
  /\ \E resp \in InfoResponses : r' = resp
  /\ LogRequest(h, [Request("GET", "info") EXCEPT !.id = vm_uuid])
  /\ Goto("info_recv")
  /\ UNCHANGED <<FLAGS, vm_name, check_unique, vm_uuid, vm_info, vm_clone_proto, specs, ci, i, task_uuid, pollState, polls, pendings, proto_dict, stripped, restripped>>

\* (get_vm_info without its status check.)
get_vm_info_unchecked(h) ==
  /\ pc = "info_recv"
  /\ Goto("construct")
  /\ LogOutcome(h, IF r.status # HTTP_OK THEN "failed" ELSE "ok")
  /\ vm_info' = r.info
  /\ UNCHANGED <<FLAGS, r, vm_name, check_unique, vm_uuid, vm_clone_proto, specs, ci, i, task_uuid, pollState, polls, pendings, proto_dict, stripped, restripped>>

\* get_vm_info after the get; on success create_clones starts.
get_vm_info_recv(h) ==
  /\ pc = "info_recv"
  /\ IF r.status # HTTP_OK
     THEN Raise(HttpException("GET", r.status)) /\ LogOutcome(h, "failed") /\ vm_info' = vm_info
     ELSE Goto("construct") /\ LogOutcome(h, "ok") /\ vm_info' = r.info
  /\ UNCHANGED <<FLAGS, r, vm_name, check_unique, vm_uuid, vm_clone_proto, specs, ci, i, task_uuid, pollState, polls, pendings, proto_dict, stripped, restripped>>

\* construct_vm_clone_proto: the dict literal, specs = [], name.
construct_vm_clone_proto_init ==
  /\ pc = "construct"
  /\ vm_clone_proto' = Proto(vm_info, vm_info.name)
  /\ specs' = <<>>
  /\ ci' = 0
  /\ Goto("construct_loop")
  /\ UNCHANGED <<FLAGS, r, vm_name, check_unique, vm_uuid, vm_info, i, task_uuid, pollState, log, polls, pendings, proto_dict, stripped, restripped>>

\* construct_vm_clone_proto: one turn of the loop, or its end.  The local
\* name was read from the dict before the loop: it is vm_info's name.
construct_vm_clone_proto_loop ==
  /\ pc = "construct_loop"
  /\ IF ci < FLAGS.num_clones
     THEN LET named == SetKey(vm_clone_proto, "name", JStr(CloneName(vm_info.name, ci)))
          IN /\ vm_clone_proto' = named
             /\ specs' = Append(specs, NewSpec(named))
             /\ ci' = ci + 1
             /\ Goto("construct_loop")
     ELSE Goto("clone_post") /\ UNCHANGED <<vm_clone_proto, specs, ci>>
  /\ UNCHANGED <<FLAGS, r, vm_name, check_unique, vm_uuid, vm_info, i, task_uuid, pollState, log, polls, pendings, proto_dict, stripped, restripped>>

\* poll_task is entered with a task identifier: the loop starts.
EnterPoll(t) ==
  /\ task_uuid' = t
  /\ pollState' = "Pending"
  /\ polls' = 0
  /\ pendings' = 0

\* create_clones: session.post of the clone batch, json.dumps(cloneSpec).
create_clones_post(h) ==
  /\ pc = "clone_post"
  /\ \E resp \in TaskResponses("clone") :
       /\ r' = resp
       /\ LogRequest(h, [Request("POST", "clone") EXCEPT !.id = vm_uuid,
                           !.body = [k \in 1..Len(specs) |-> SpecName(specs[k])],
                           !.reply = resp.taskUuid])
  /\ Goto("clone_recv")
  /\ UNCHANGED <<FLAGS, vm_name, check_unique, vm_uuid, vm_info, vm_clone_proto, specs, ci, i, task_uuid, pollState, polls, pendings, proto_dict, stripped, restripped>>

\* create_clones after the post: the status check, taskUuid, poll_task.
create_clones_recv(h) ==
  /\ pc = "clone_recv"
  /\ IF r.status # HTTP_OK
     THEN /\ Raise(HttpException("POST", r.status))
          /\ LogOutcome(h, "failed")
          /\ UNCHANGED <<task_uuid, pollState, polls, pendings>>
     ELSE Goto("poll_get") /\ LogOutcome(h, "ok") /\ EnterPoll(r.taskUuid)
  /\ UNCHANGED <<FLAGS, r, vm_name, check_unique, vm_uuid, vm_info, vm_clone_proto, specs, ci, i, proto_dict, stripped, restripped>>

\* cleanup_clones: session.delete of the resolved VM.
cleanup_clones_delete(h) ==
  /\ pc = "delete"
  /\ \E resp \in TaskResponses("delete") :
       /\ r' = resp
       /\ LogRequest(h, [Request("DELETE", "delete") EXCEPT !.id = vm_uuid,
                           !.reply = resp.taskUuid])
  /\ Goto("delete_recv")
  /\ UNCHANGED <<FLAGS, vm_name, check_unique, vm_uuid, vm_info, vm_clone_proto, specs, ci, i, task_uuid, pollState, polls, pendings, proto_dict, stripped, restripped>>

\* (cleanup_clones going on to the next clone when a DELETE is refused.)
cleanup_clones_skip_failed(h) ==
  /\ pc = "delete_recv"
  /\ IF r.status # HTTP_OK
     THEN /\ Goto("cleanup_loop")
          /\ i' = i + 1
          /\ LogOutcome(h, "failed")
          /\ UNCHANGED <<task_uuid, pollState, polls, pendings>>
     ELSE Goto("poll_get") /\ LogOutcome(h, "ok") /\ EnterPoll(r.taskUuid) /\ i' = i
  /\ UNCHANGED <<FLAGS, r, vm_name, check_unique, vm_uuid, vm_info, vm_clone_proto, specs, ci, proto_dict, stripped, restripped>>

\* cleanup_clones after the delete: the status check, taskUuid, poll_task.
cleanup_clones_recv(h) ==
  /\ pc = "delete_recv"
  /\ IF r.status # HTTP_OK
     THEN /\ Raise(HttpException("DELETE", r.status))
          /\ LogOutcome(h, "failed")
          /\ UNCHANGED <<task_uuid, pollState, polls, pendings>>
     ELSE Goto("poll_get") /\ LogOutcome(h, "ok") /\ EnterPoll(r.taskUuid)
  /\ UNCHANGED <<FLAGS, r, vm_name, check_unique, vm_uuid, vm_info, vm_clone_proto, specs, ci, i, proto_dict, stripped, restripped>>

\* poll_task: session.get of the task's poll URL.  With the history kept the
\* server answers without a metaResponse at most MaxPending times per task.
poll_task_get(h) ==
  /\ pc = "poll_get"
  /\ \E resp \in PollResponses :
       /\ h /\ resp = PendingResponse => pendings < MaxPending
       /\ r' = resp
  /\ LogRequest(h, [Request("GET", "poll") EXCEPT !.task = task_uuid])
  /\ polls' = IF h THEN polls + 1 ELSE polls
  /\ Goto("poll_recv")
  /\ UNCHANGED <<FLAGS, vm_name, check_unique, vm_uuid, vm_info, vm_clone_proto, specs, ci, i, task_uuid, pollState, pendings, proto_dict, stripped, restripped>>

\* (poll_task giving up, when giveUp holds, on a response that has no
\* metaResponse: after a number of attempts, or when a deadline has passed.)
poll_task_giving_up(h, giveUp) ==
  /\ pc = "poll_recv"
  /\ LET res == poll_task_result(r, task_uuid)
     IN CASE res.next = "raise" \/ (res.next = "continue" /\ giveUp) ->
               /\ Raise(IF res.next = "raise" THEN res.err ELSE Exception("Task %s timed out"))
               /\ pollState' = "Failed"
               /\ LogOutcome(h, "failed")
               /\ UNCHANGED <<pendings, i>>
          [] res.next = "continue" /\ ~giveUp ->
               /\ Goto("poll_get")
               /\ pendings' = IF h THEN pendings + 1 ELSE pendings
               /\ LogOutcome(h, "pending")
               /\ UNCHANGED <<pollState, i>>
          [] OTHER ->
               /\ pollState' = "Succeeded"
               /\ LogOutcome(h, "ok")
               /\ IF FLAGS.action = "clone"
                  THEN Goto("done") /\ i' = i
                  ELSE Goto("cleanup_loop") /\ i' = i + 1
               /\ pendings' = pendings
  /\ UNCHANGED <<FLAGS, r, vm_name, check_unique, vm_uuid, vm_info, vm_clone_proto, specs, ci, task_uuid, polls, proto_dict, stripped, restripped>>
poll_task_max_attempts(h) == poll_task_giving_up(h, polls >= 2)
poll_task_deadline(h) == \E late \in BOOLEAN : poll_task_giving_up(h, late)

\* poll_task after the get: raise, continue, or break and return to the
\* caller (create_clones, which returns to main; or cleanup_clones' loop).
poll_task_recv(h) ==
  /\ pc = "poll_recv"
  /\ LET res == poll_task_result(r, task_uuid)
     IN CASE res.next = "raise" ->
               /\ Raise(res.err)
               /\ pollState' = "Failed"
               /\ LogOutcome(h, "failed")
               /\ UNCHANGED <<pendings, i>>
          [] res.next = "continue" ->
               /\ Goto("poll_get")
               /\ pendings' = IF h THEN pendings + 1 ELSE pendings
               /\ LogOutcome(h, "pending")
               /\ UNCHANGED <<pollState, i>>
          [] OTHER ->
               /\ pollState' = "Succeeded"
               /\ LogOutcome(h, "ok")
               /\ IF FLAGS.action = "clone"
                  THEN Goto("done") /\ i' = i
                  ELSE Goto("cleanup_loop") /\ i' = i + 1
               /\ pendings' = pendings
  /\ UNCHANGED <<FLAGS, r, vm_name, check_unique, vm_uuid, vm_info, vm_clone_proto, specs, ci, task_uuid, polls, proto_dict, stripped, restripped>>

(***************************************************************************)
(* _strip_empty_fields applied to a value, and to its result.              *)
(***************************************************************************)
strip_once ==
  /\ pc = "strip"
  /\ stripped' = _strip_empty_fields(proto_dict)
  /\ pc' = "restrip"
  /\ UNCHANGED <<flowVars, proto_dict, restripped>>

strip_again ==
  /\ pc = "restrip"
  /\ restripped' = _strip_empty_fields(stripped)
  /\ pc' = "stripped"
  /\ UNCHANGED <<flowVars, proto_dict, stripped>>

(***************************************************************************)
(* Specifications.                                                         *)
(***************************************************************************)
InitFlow ==
  /\ FLAGS \in [action : Actions, cluster_ip : ClusterIps, vm_name : VmNames, num_clones : 0..MaxClones]
  /\ err = NoErr
  /\ r = NoResp
  /\ vm_name = ""
  /\ check_unique = 0
  /\ vm_uuid = NoUuid
  /\ vm_info = NoInfo
  /\ vm_clone_proto = JNull
  /\ specs = <<>>
  /\ ci = 0
  /\ i = 0
  /\ task_uuid = ""
  /\ pollState = "NoTask"
  /\ log = <<>>
  /\ polls = 0
  /\ pendings = 0

\* The script started with some flags.
Init ==
  /\ InitFlow
  /\ pc = "main"
  /\ proto_dict = JNull
  /\ stripped = JNull
  /\ restripped = JNull

Step(h) ==
  \/ main
  \/ clone
  \/ cleanup
  \/ cleanup_clones_loop
  \/ resolve_vm_uuid_get(h)
  \/ resolve_vm_uuid_recv(h)
  \/ get_vm_info_get(h)
  \/ get_vm_info_recv(h)
  \/ construct_vm_clone_proto_init
  \/ construct_vm_clone_proto_loop
  \/ create_clones_post(h)
  \/ create_clones_recv(h)
  \/ cleanup_clones_delete(h)
  \/ cleanup_clones_recv(h)
  \/ poll_task_get(h)
  \/ poll_task_recv(h)

\* The script with its history, against a server that completes every task
\* after at most MaxPending pending answers.
Next == Step(TRUE)
Spec == Init /\ [][Next]_vars

\* The script without history, against any server; the script keeps running
\* while it has a statement to run (every request gets its response).
NextLive == Step(FALSE)
LiveSpec == Init /\ [][NextLive]_vars /\ WF_vars(NextLive)

\* _strip_empty_fields on every JSON value of at most MaxNodes nodes.
InitPrune ==
  /\ InitFlow
  /\ FLAGS.action = None /\ FLAGS.cluster_ip = None /\ FLAGS.vm_name = None /\ FLAGS.num_clones = 0
  /\ pc = "strip"
  /\ proto_dict \in JsonValues
  /\ stripped = JNull
  /\ restripped = JNull
NextPrune == strip_once \/ strip_again
SpecPrune == InitPrune /\ [][NextPrune]_vars

(***************************************************************************)
(* Properties.                                                             *)
(***************************************************************************)
\* The exceptions of the script under the names the specification gives them.
NotFoundError(e) == e.type = "Exception" /\ e.msg = "Failed to find VM named %r"
AmbiguousNameError(e) == e.type = "Exception" /\ e.msg = "VM name %r is not unique"
TaskFailedError(e, code, detail) ==
  e.type = "Exception" /\ e.msg = "Task %s failed: %s: %s" /\ e.code = code /\ e.detail = detail
InvalidArgumentError(e) ==
  \/ e.type = "AssertionError"
  \/ e.type = "Exception" /\ e.msg = "Unknown --action; expected 'clone' or 'cleanup'"

\* t is what follows the last ":" of s, the whole of s when it has none.
AfterLastDelimiter(s, t) ==
  \E k \in 0..Len(s) :
    /\ t = SubSeq(s, k + 1, Len(s))
    /\ \A j \in (k + 1)..Len(s) : s[j] # ":"
    /\ k = 0 \/ s[k] = ":"

\* The script stopped: it issues no request and changes nothing any more.
Stopped == pc = "failed" /\ ~ENABLED Next

\* resolve_vm_uuid has dealt with the response r of its GET.
Resolved == r.kind = "resolve" /\ pc # "resolve_recv"
\* poll_task has dealt with the response r of its latest GET.
Polled == r.kind = "poll" /\ pc # "poll_recv"
LastRequest == log[Len(log)]

\* C1: with uniqueness enforced and a successful GET of the filtered VM list,
\* zero matches raise the not-found error and two or more the not-unique
\* error, in both cases with no identifier returned and the resolve request
\* the last request ever issued; exactly one match returns what follows the
\* last delimiter of the first entity's vmId.
C1_ResolveUnique ==
  (Resolved /\ check_unique # 0 /\ r.status = HTTP_OK) =>
    /\ r.count = 0 =>
         NotFoundError(err) /\ vm_uuid = NoUuid /\ Stopped /\ LastRequest.kind = "resolve"
    /\ r.count >= 2 =>
         AmbiguousNameError(err) /\ vm_uuid = NoUuid /\ Stopped /\ LastRequest.kind = "resolve"
    /\ r.count = 1 =>
         pc # "failed" /\ err = NoErr /\ AfterLastDelimiter(r.entities[1], vm_uuid)

C1_Witness ==
  /\ Resolved /\ check_unique = 1 /\ r.status = HTTP_OK /\ r.count = 1
  /\ r.entities[1] = <<"c", ":", "9", ":", ":", "u", "3">>
  /\ vm_uuid = <<"u", "3">>
  /\ pc = "info_get"

\* The poll requests of the log that cleanup index k (0 in the clone flow) issued.
PollsOf(k) == {j \in 1..Len(log) : log[j].kind = "poll" /\ log[j].idx = k}

\* C2: poll_task returns normally at the first response that has a
\* metaResponse whose error is kNoError, after any number k of responses
\* without one; that call issued k + 1 poll requests, the last of them the
\* one that completed, and none after it.
C2_PollReturns ==
  /\ (Polled /\ r.status = HTTP_OK /\ r.hasMr /\ r.error = "kNoError") =>
       /\ pollState = "Succeeded" /\ pc # "failed" /\ err = NoErr
       /\ polls = pendings + 1
  /\ \A j \in 1..Len(log) :
       (log[j].kind = "poll" /\ log[j].outcome = "ok") =>
         /\ \A m \in PollsOf(log[j].idx) : m <= j /\ (m < j => log[m].outcome = "pending")
         /\ Cardinality(PollsOf(log[j].idx)) =
              Cardinality({m \in PollsOf(log[j].idx) : log[m].outcome = "pending"}) + 1

C2_Witness ==
  /\ Polled /\ r.status = HTTP_OK /\ r.hasMr /\ r.error = "kNoError"
  /\ pollState = "Succeeded" /\ pendings = MaxPending /\ polls = MaxPending + 1
  /\ pc = "done"

\* C3: when the first response with a metaResponse has an error other than
\* kNoError, poll_task raises the task failure with the server's error and
\* errorDetail and does not return normally, whatever the number of
\* responses without a metaResponse before it.
C3_PollFails ==
  (Polled /\ r.status = HTTP_OK /\ r.hasMr /\ r.error # "kNoError") =>
    /\ pc = "failed" /\ pollState = "Failed"
    /\ TaskFailedError(err, r.error, r.errorDetail)
    /\ err.task = task_uuid
    /\ LastRequest.kind = "poll" /\ LastRequest.outcome = "failed"

C3_Witness ==
  /\ Polled /\ r.status = HTTP_OK /\ r.hasMr
  /\ r.error = "kNoHostResources" /\ r.errorDetail = "no host"
  /\ pendings = MaxPending
  /\ pc = "failed" /\ err.code = "kNoHostResources" /\ err.detail = "no host"

\* The requests of the clone flow, by position in the log.
CloneRequestOk(j) ==
  LET q == log[j]
  IN CASE j = 1 -> q.method = "GET" /\ q.kind = "resolve" /\ q.name = FLAGS.vm_name
       [] j = 2 -> /\ q.method = "GET" /\ q.kind = "info"
                   /\ log[1].outcome = "ok" /\ q.id = vm_uuid
       [] j = 3 -> /\ q.method = "POST" /\ q.kind = "clone"
                   /\ log[2].outcome = "ok" /\ q.id = vm_uuid
                   /\ Len(q.body) = FLAGS.num_clones
       [] j = 4 -> /\ q.method = "GET" /\ q.kind = "poll"
                   /\ log[3].outcome = "ok" /\ q.task = log[3].reply
       [] OTHER -> /\ q.method = "GET" /\ q.kind = "poll"
                   /\ log[j - 1].outcome = "pending" /\ q.task = log[3].reply

\* C4: the clone flow issues one name-resolution GET for the VM name with
\* uniqueness enforced, then one descriptor GET for the resolved identifier,
\* then one clone POST whose specList holds num_clones specs, then poll GETs
\* for the task that POST returned and for no other; each request is issued
\* only after the one before it succeeded, and the flow ends when the task
\* has completed.
C4_CloneFlow ==
  FLAGS.action = "clone" =>
    /\ \A j \in 1..Len(log) : CloneRequestOk(j)
    /\ Len(log) > 0 => check_unique = 1
    /\ pc = "done" => Len(log) >= 4 /\ LastRequest.kind = "poll" /\ LastRequest.outcome = "ok"

C4_Witness ==
  /\ FLAGS.action = "clone" /\ FLAGS.num_clones = MaxClones /\ pc = "done"
  /\ Len(log) = 4 + MaxPending
  /\ Len(log[3].body) = MaxClones /\ MaxClones >= 2
  /\ log[3].reply = "t2"

\* The requests of the cleanup flow: request j with the one before it.
CleanupRequestOk(j) ==
  LET q == log[j]
      p == log[j - 1]
  IN /\ q.idx \in 0..(FLAGS.num_clones - 1)
     /\ CASE q.kind = "resolve" ->
               /\ q.method = "GET" /\ q.name = CloneName(FLAGS.vm_name, q.idx)
               /\ IF j = 1 THEN q.idx = 0
                  ELSE p.kind = "poll" /\ p.outcome = "ok" /\ q.idx = p.idx + 1
          [] q.kind = "delete" ->
               /\ q.method = "DELETE" /\ j > 1
               /\ p.kind = "resolve" /\ p.outcome = "ok" /\ q.idx = p.idx
          [] q.kind = "poll" ->
               /\ q.method = "GET" /\ j > 1 /\ q.idx = p.idx
               /\ \/ p.kind = "delete" /\ p.outcome = "ok" /\ q.task = p.reply
                  \/ p.kind = "poll" /\ p.outcome = "pending" /\ q.task = p.task
          [] OTHER -> FALSE

\* C5: the cleanup flow handles the names <vm_name>-0, <vm_name>-1, ... in
\* increasing order; for each it issues the resolve GET (uniqueness not
\* enforced), then the DELETE, then the polls of that DELETE's task, and only
\* then turns to the next; a request that failed, a resolve that found no
\* entity included, is the last request the flow issues.
C5_CleanupFlow ==
  FLAGS.action = "cleanup" =>
    /\ \A j \in 1..Len(log) : CleanupRequestOk(j)
    /\ \A j \in 1..Len(log) : log[j].outcome = "failed" => j = Len(log) /\ Stopped
    /\ Len(log) > 0 => check_unique = 0
    /\ (Resolved /\ r.status = HTTP_OK /\ r.count = 0) =>
         Stopped /\ LastRequest.kind = "resolve" /\ LastRequest.idx = i
    /\ pc = "done" =>
         \A k \in 0..(FLAGS.num_clones - 1) :
           /\ Cardinality({j \in 1..Len(log) : log[j].kind = "resolve" /\ log[j].idx = k}) = 1
           /\ Cardinality({j \in 1..Len(log) : log[j].kind = "delete" /\ log[j].idx = k}) = 1
           /\ \E j \in PollsOf(k) : log[j].outcome = "ok"

C5_Witness ==
  /\ FLAGS.action = "cleanup" /\ FLAGS.num_clones = MaxClones /\ MaxClones >= 2
  /\ Resolved /\ r.status = HTTP_OK /\ r.count = 0
  /\ i = 1 /\ pc = "failed"
  /\ Len(log) >= 4 /\ log[1].name = "web01-0" /\ LastRequest.name = "web01-1"

\* The invocation lacks a required parameter or names no known mode.
BadInvocation ==
  \/ FLAGS.action \notin {"clone", "cleanup"}
  \/ FLAGS.cluster_ip = None
  \/ FLAGS.vm_name = None

\* C6: an invocation without a required parameter, or with a mode other
\* than clone and cleanup, fails with the invalid-argument error and has
\* issued no request when it fails (nor at any other time).
C6_InvalidArgument ==
  /\ BadInvocation =>
       /\ Len(log) = 0 /\ r = NoResp
       /\ pc \in {"main", "clone", "cleanup", "failed"}
       /\ pc = "failed" => InvalidArgumentError(err) /\ Stopped
  /\ (pc = "failed" /\ InvalidArgumentError(err)) => BadInvocation /\ Len(log) = 0

C6_Witness ==
  /\ FLAGS.action = "cleanup" /\ FLAGS.cluster_ip # None /\ FLAGS.vm_name = None
  /\ FLAGS.num_clones = MaxClones
  /\ pc = "failed" /\ err.type = "AssertionError" /\ Len(log) = 0

\* construct_vm_clone_proto is in or past its loop.
Constructing == pc \in {"construct_loop", "clone_post", "clone_recv", "poll_get", "poll_recv", "done"}

\* C7: construct_vm_clone_proto builds num_clones specs, the one at
\* position k (from 0) named <descriptor's name>-k; the specs built so far
\* keep these names while the later ones are built.
C7_CloneSpecs ==
  (FLAGS.action = "clone" /\ (Constructing \/ (pc = "failed" /\ r.kind \in {"clone", "poll"}))) =>
    /\ Len(specs) = ci /\ ci <= FLAGS.num_clones
    /\ pc # "construct_loop" => Len(specs) = FLAGS.num_clones
    /\ \A k \in 1..Len(specs) :
         /\ Deref(specs[k]).t = "dict" /\ HasKey(Deref(specs[k]), "name")
         /\ SpecName(specs[k]) = vm_info.name \o "-" \o ToString(k - 1)

C7_Witness ==
  /\ pc = "clone_post" /\ Len(specs) = MaxClones /\ MaxClones >= 2
  /\ vm_info.name = "db" /\ vm_info.numVcpus = 0
  /\ SpecName(specs[1]) = "db-0" /\ SpecName(specs[2]) = "db-1"
  /\ ~HasKey(Deref(specs[1]), "numVcpus")

\* The Python values that are false.
Falsy(v) == v \in {JNull, JInt(0), JStr(""), JList(<<>>), JDict(<<>>, <<>>)}

\* C8: pruning a pruned value changes nothing, and a pruned value holds no
\* false value (empty string, zero, None, empty dict, empty list) as a dict
\* value or a list element at any depth.
C8_PruneIdempotentComplete ==
  /\ pc \in {"restrip", "stripped"} => \A v \in Inner(stripped) : ~Falsy(v)
  /\ pc = "stripped" => restripped = stripped

C8_Witness ==
  /\ pc = "stripped"
  /\ proto_dict = JDict(<<"a", "b">>, <<JList(<<JInt(0)>>), JStr("a")>>)
  /\ stripped = JDict(<<"b">>, <<JStr("a")>>)
  /\ restripped = stripped

\* The state a response puts the polled task in, from its content alone.
TaskStateAfter(resp) ==
  IF resp.status # HTTP_OK THEN "Failed"
  ELSE IF ~resp.hasMr THEN "Pending"
  ELSE IF resp.error = "kNoError" THEN "Succeeded"
  ELSE "Failed"

PollIssued == Len(log') = Len(log) + 1 /\ log'[Len(log')].kind = "poll"

C9_States ==
  /\ pollState \in {"NoTask", "Pending", "Succeeded", "Failed"}
  /\ pollState = "Pending" <=> pc \in {"poll_get", "poll_recv"}
  /\ pollState = "NoTask" => polls = 0

C9_Step ==
  /\ PollIssued => pollState = "Pending" /\ pollState' = "Pending"
  /\ (pollState = "Pending" /\ pc = "poll_recv") => pollState' = TaskStateAfter(r)
  /\ (pollState = "Pending" /\ pc # "poll_recv") => pollState' = "Pending"
  /\ pollState = "Failed" => UNCHANGED vars
  /\ (pollState \in {"NoTask", "Succeeded"} /\ pollState' # pollState) =>
       /\ pc \in {"clone_recv", "delete_recv"}
       /\ pollState' = "Pending" /\ polls' = 0 /\ task_uuid' = r.taskUuid

\* C9: a polled task is Pending from the start of poll_task; a poll request
\* is issued only while it is Pending; it leaves Pending only when a response
\* is examined, for the state that response's content gives, whatever the
\* number of polls so far; Failed ends the script, and after Succeeded no
\* poll is issued and the state changes only when poll_task is called for
\* another task.
C9_PollStateMachine == []C9_States /\ [][C9_Step]_vars

C9_Witness ==
  /\ FLAGS.action = "cleanup" /\ i = 1
  /\ pollState = "Pending" /\ pc = "poll_recv"
  /\ polls = MaxPending + 1 /\ pendings = MaxPending
  /\ r.hasMr /\ r.error = "kNoError"

\* A response that ends poll_task is at hand.
FinalResponse == pc = "poll_recv" /\ (r.status # HTTP_OK \/ r.hasMr)
\* Every poll response has status 200 and no metaResponse.
NeverCompletes == r.kind = "poll" => r = PendingResponse

\* C10: poll_task has no deadline: it ends once a response with a
\* metaResponse, or with a status other than 200, has come; and when every
\* poll response has status 200 and no metaResponse the task stays Pending
\* for ever and poll requests are issued again and again.
C10_NoDeadline ==
  /\ FinalResponse ~> (pollState \in {"Succeeded", "Failed"})
  /\ []NeverCompletes =>
       /\ [](pollState = "Pending" => [](pollState = "Pending"))
       /\ <>(pollState = "Pending") => []<><<poll_task_get(FALSE)>>_vars

C10_Witness ==
  /\ pc = "poll_get" /\ r = PendingResponse /\ pollState = "Pending"
  /\ FLAGS.action = "cleanup" /\ i = 1

====
